---- MODULE Spec2Model ----
(***************************************************************************)
(* Model of src/src/amqplib-auto-recovery.js: withAutoRecovery(amqp, o).   *)
(*                                                                         *)
(* One supervisor is one call of the decorated connect(url, cb) by the     *)
(* caller plus the calls of connect(url, cb) that the close listener       *)
(* re-schedules with process.nextTick.  Every call of connect owns a fresh *)
(* closure: activeConnection, the backoff call and, after a success, con,  *)
(* lastError, connectionClosed and the closures of its channels.  The      *)
(* model keeps the two newest of these closures: "cur", made by the latest *)
(* call of connect, and "old", made by the call before it; a call of       *)
(* connect moves "cur" to "old" and forgets what "old" held.               *)
(*                                                                         *)
(* Every action is one turn of the event loop: one handler of the module   *)
(* run to completion.  The raw amqplib client and the backoff package are  *)
(* the environment; their answers are drawn with \E.                       *)
(***************************************************************************)
EXTENDS Naturals, Sequences, FiniteSets

\* ---- bounds of the model
MaxCh == 2
MaxAttempts == 2

Gens == {"old", "cur"}
Chans == 1..MaxCh

\* ---- errors the raw client reports, and the caller's classifier
Errors == {"ECONNRESET", "ACCESS_REFUSED"}
NoError == "none"

\* o.isErrorUnrecoverable, a predicate the caller supplies (line 21); here
\* it classifies one of the two errors as unrecoverable.
IsErrorUnrecoverable(err) == err = "ACCESS_REFUSED"

VARIABLES
  started,                \* the caller has called connect(url, connectCallback)
  tick,                   \* number of pending process.nextTick(connect, ...)
  loop,                   \* [g] state of the closure's backoff call
  attempts,               \* number of amqp.connect calls since the latest connect
  cbLog,                  \* connectCallback invocations since the latest connect
  activeConnection,       \* [g] TRUE iff the closure's activeConnection holds con
  lastError,              \* [g] the closure's lastError (NoError = undefined)
  connectionClosed,       \* [g] the closure's connectionClosed
  rawCon,                 \* [g] state of the raw connection con
  lastReported,           \* [g] the error the raw client reported last on con
                          \*     or on a channel of con (NoError = none so far)
  chan,                   \* [c] state of the raw channel c
  chanOwner,              \* [c] the closure whose connection channel c is on
  channelClosedByClient,  \* [c] the channel closure's channelClosedByClient
  channelClosed,          \* [c] the channel closure's channelClosed
  reconnectAsked,         \* closeAndReconnect() has closed the connection of "cur"
  forcedClose,            \* what made closeConnection close the open connection
                          \* of "cur": NotForced, "channelClose", or the error of
                          \* the channel-creation failure
  out,                    \* what the last turn handed to o.onError and raised
  observe                 \* whether out is recorded in this behaviour

vars == <<started, tick, loop, attempts, cbLog, activeConnection, lastError,
          connectionClosed, rawCon, lastReported, chan, chanOwner,
          channelClosedByClient, channelClosed, reconnectAsked, forcedClose,
          out, observe>>

loopVars == <<loop, attempts, cbLog>>
fixedVars == <<observe, reconnectAsked, started>>
askedVars == <<fixedVars, forcedClose>>
conVars == <<activeConnection, lastError, connectionClosed, rawCon, lastReported>>
chanVars == <<chan, chanOwner, channelClosedByClient, channelClosed>>

\* The effects of one turn outside the closures: the message handed to
\* o.onError and the error the turn raised to whoever called it.  They are
\* recorded in the behaviours of SpecObserved only, with what the raw
\* con.close() raised inside the turn and what the turn handed to the
\* caller's channel callback.
Quiet == [onError |-> "none", thrown |-> "none", raised |-> "none", chanCb |-> "none"]
OutAll(onError, thrown, raised, chanCb) ==
  IF observe
    THEN [onError |-> onError, thrown |-> thrown, raised |-> raised, chanCb |-> chanCb]
    ELSE Quiet

\* A turn in which nothing stands between the raw call and the caller.
Out(onError, thrown) == OutAll(onError, thrown, thrown, "none")

NotForced == "none"

InitClosures ==
  /\ started = FALSE
  /\ tick = 0
  /\ loop = [g \in Gens |-> "pending"]
  /\ attempts = 0
  /\ cbLog = <<>>
  /\ activeConnection = [g \in Gens |-> FALSE]
  /\ lastError = [g \in Gens |-> NoError]
  /\ connectionClosed = [g \in Gens |-> FALSE]
  /\ rawCon = [g \in Gens |-> "none"]
  /\ lastReported = [g \in Gens |-> NoError]
  /\ chan = [c \in Chans |-> "none"]
  /\ chanOwner = [c \in Chans |-> "none"]
  /\ channelClosedByClient = [c \in Chans |-> FALSE]
  /\ channelClosed = [c \in Chans |-> FALSE]
  /\ reconnectAsked = FALSE
  /\ forcedClose = NotForced
  /\ out = Quiet

Init == InitClosures /\ observe = FALSE

InitObserved == InitClosures /\ observe = TRUE

\* ---- the backoff call (backoff.call(fn, callback), lines 26, 133-141) ----

\* Mutant of BackoffArg: the error is handed on whatever the classifier says.
BackoffArgPassesError(err) == err

\* Mutant of BackoffArg: null is handed on whatever the error.
BackoffArgDropsError(err) == NoError

\* Line 30: the value the attempt hands to the backoff call's completion
\* callback: the error when it is recoverable, null when it is not.
BackoffArg(err) == IF ~IsErrorUnrecoverable(err) THEN err ELSE NoError

\* Mutant of LoopAfter: the backoff call gives up at the first error.
LoopAfterGivesUp(arg) == "completed"

\* The backoff call retries after a delay when its completion callback gets
\* an error, and completes when it gets null/undefined (lines 30, 131).
LoopAfter(arg) == IF arg # NoError THEN "waiting" ELSE "completed"

\* One invocation of connectCallback: (err) on failure, (null, wrapper) on
\* success; con = "none" stands for the missing second argument.
CallbackWith(err, con) == [err |-> err, con |-> con]

\* A call of connect makes a new closure: what "cur" held becomes "old".
Shift(f, fresh) == [g \in Gens |-> IF g = "cur" THEN fresh ELSE f["cur"]]

\* Mutant of ConnectCall: one backoff call for all the closures, its count of
\* failed attempts carried into the next loop.
ConnectCallKeepsBackoff ==
  /\ loop' = Shift(loop, "connecting")
  /\ attempts' = IF attempts = 0 THEN 1 ELSE attempts
  /\ cbLog' = cbLog
  /\ activeConnection' = Shift(activeConnection, FALSE)
  /\ lastError' = Shift(lastError, NoError)
  /\ connectionClosed' = Shift(connectionClosed, FALSE)
  /\ rawCon' = Shift(rawCon, "none")
  /\ lastReported' = Shift(lastReported, NoError)
  /\ chan' = [c \in Chans |-> IF chanOwner[c] = "cur" THEN chan[c] ELSE "none"]
  /\ chanOwner' = [c \in Chans |-> IF chanOwner[c] = "cur" THEN "old" ELSE "none"]
  /\ channelClosedByClient' =
       [c \in Chans |-> chanOwner[c] = "cur" /\ channelClosedByClient[c]]
  /\ channelClosed' = [c \in Chans |-> chanOwner[c] = "cur" /\ channelClosed[c]]
  /\ reconnectAsked' = FALSE
  /\ forcedClose' = NotForced
  /\ out' = Quiet

\* connect(url, connectCallback), lines 24-142: a fresh closure with
\* activeConnection = null and a backoff call that spec.start() runs at once,
\* so amqp.connect is in flight when connect returns.
ConnectCall ==
  /\ loop' = Shift(loop, "connecting")
  /\ attempts' = 1
  /\ cbLog' = <<>>
  /\ activeConnection' = Shift(activeConnection, FALSE)
  /\ lastError' = Shift(lastError, NoError)
  /\ connectionClosed' = Shift(connectionClosed, FALSE)
  /\ rawCon' = Shift(rawCon, "none")
  /\ lastReported' = Shift(lastReported, NoError)
  /\ chan' = [c \in Chans |-> IF chanOwner[c] = "cur" THEN chan[c] ELSE "none"]
  /\ chanOwner' = [c \in Chans |-> IF chanOwner[c] = "cur" THEN "old" ELSE "none"]
  /\ channelClosedByClient' =
       [c \in Chans |-> chanOwner[c] = "cur" /\ channelClosedByClient[c]]
  /\ channelClosed' = [c \in Chans |-> chanOwner[c] = "cur" /\ channelClosed[c]]
  /\ reconnectAsked' = FALSE
  /\ forcedClose' = NotForced
  /\ out' = Quiet

\* The caller's connect(url, connectCallback) on the decorated client.
Connect ==
  /\ ~started
  /\ started' = TRUE
  /\ ConnectCall
  /\ UNCHANGED <<observe, tick>>

\* The turn process.nextTick(connect, url, connectCallback) asked for (line 46).
NextTick ==
  /\ tick > 0
  /\ tick' = tick - 1
  /\ ConnectCall
  /\ UNCHANGED <<observe, started>>

\* Mutant of ConnectFail: connectCallback is not invoked for a failed attempt.
ConnectFailNoCallback(g, err) ==
  /\ loop[g] = "connecting"
  /\ BackoffArg(err) # NoError => attempts < MaxAttempts
  /\ loop' = [loop EXCEPT ![g] = LoopAfter(BackoffArg(err))]
  /\ out' = Quiet
  /\ UNCHANGED <<askedVars, tick, attempts, cbLog, conVars, chanVars>>

\* amqp.connect calls back with an error (lines 27-32).
ConnectFail(g, err) ==
  /\ loop[g] = "connecting"
  /\ BackoffArg(err) # NoError => attempts < MaxAttempts
  /\ cbLog' = Append(cbLog, CallbackWith(err, "none"))
  /\ loop' = [loop EXCEPT ![g] = LoopAfter(BackoffArg(err))]
  /\ out' = Quiet
  /\ UNCHANGED <<askedVars, tick, attempts, conVars, chanVars>>

\* The backoff timer of a waiting call fires: the next attempt starts.
BackoffTimer(g) ==
  /\ loop[g] = "waiting"
  /\ loop' = [loop EXCEPT ![g] = "connecting"]
  /\ attempts' = attempts + 1
  /\ out' = Quiet
  /\ UNCHANGED <<askedVars, tick, cbLog, conVars, chanVars>>

\* amqp.connect calls back with a connection (lines 33-34, 39, 102-131).
ConnectSuccess(g) ==
  /\ loop[g] = "connecting"
  /\ activeConnection' = [activeConnection EXCEPT ![g] = TRUE]
  /\ lastError' = [lastError EXCEPT ![g] = NoError]
  /\ connectionClosed' = [connectionClosed EXCEPT ![g] = FALSE]
  /\ rawCon' = [rawCon EXCEPT ![g] = "open"]
  /\ cbLog' = Append(cbLog, CallbackWith(NoError, "con"))
  /\ loop' = [loop EXCEPT ![g] = LoopAfter(NoError)]
  /\ out' = Quiet
  /\ UNCHANGED <<askedVars, tick, attempts, lastReported, chanVars>>

\* ---- the raw connection's listeners (lines 35-53) ----

\* Lines 42-45: the close listener reconnects when activeConnection is set
\* and lastError is unset or not classified unrecoverable.
ShouldReconnect(active, lastErr) ==
  active /\ (lastErr = NoError \/ ~IsErrorUnrecoverable(lastErr))

\* Mutant of OnConClose: the connect is scheduled twice.
OnConCloseSchedulesTwice(g, active, lastErr) ==
  /\ connectionClosed' = [connectionClosed EXCEPT ![g] = TRUE]
  /\ tick' = IF ShouldReconnect(active, lastErr) THEN tick + 2 ELSE tick

\* Mutant of OnConClose: connectionClosed is not set.
OnConCloseFlagNotSet(g, active, lastErr) ==
  /\ UNCHANGED connectionClosed
  /\ tick' = IF ShouldReconnect(active, lastErr) THEN tick + 1 ELSE tick

\* con.on('close'), lines 40-53, run with the closure's current values.
OnConClose(g, active, lastErr) ==
  /\ connectionClosed' = [connectionClosed EXCEPT ![g] = TRUE]
  /\ tick' = IF ShouldReconnect(active, lastErr) THEN tick + 1 ELSE tick

\* Mutant of OnConError: the error is recorded but o.onError is not invoked.
OnConErrorNotReported(g, err) ==
  /\ lastError' = [lastError EXCEPT ![g] = err]
  /\ out' = Quiet

\* con.on('error'), lines 35-38.
OnConError(g, err) ==
  /\ lastError' = [lastError EXCEPT ![g] = err]
  /\ out' = Out("Connection failed", "none")

\* Mutant of ConError: the error listener reconnects as the close listener does.
ConErrorReconnects(g, err) ==
  /\ rawCon[g] \in {"open", "closing"}
  /\ lastReported' = [lastReported EXCEPT ![g] = err]
  /\ OnConError(g, err)
  /\ tick' = tick + 1
  /\ UNCHANGED <<askedVars, loopVars, activeConnection, connectionClosed,
                 rawCon, chanVars>>

\* The raw connection emits 'error'.
ConError(g, err) ==
  /\ rawCon[g] \in {"open", "closing"}
  /\ lastReported' = [lastReported EXCEPT ![g] = err]
  /\ OnConError(g, err)
  /\ UNCHANGED <<askedVars, tick, loopVars, activeConnection, connectionClosed,
                 rawCon, chanVars>>

\* The raw connection emits 'close' (broker, network, or the end of a close
\* handshake): once per raw connection.
ConCloseEvent(g) ==
  /\ rawCon[g] \in {"open", "closing"}
  /\ rawCon' = [rawCon EXCEPT ![g] = "closed"]
  /\ OnConClose(g, activeConnection[g], lastError[g])
  /\ out' = Quiet
  /\ UNCHANGED <<askedVars, loopVars, activeConnection, lastError, lastReported,
                 chanVars>>

\* ---- con.close() of the raw client ----

\* What a call of the raw con.close() can do: on an open connection it starts
\* the close handshake ("closing") or completes at once, emitting 'close'
\* inside the call ("closed"); on a closing or closed connection it raises
\* (IllegalOperationError, line 59, or another error) or, once closed, only
\* reports through its callback ("ignored").
RawCloseOutcomes(s) ==
  IF s = "open" THEN {"closing", "closed"}
  ELSE {"IllegalOperationError", "Error"}
         \cup (IF s = "closed" THEN {"ignored"} ELSE {})

Raised(res) == IF res \in {"IllegalOperationError", "Error"} THEN res ELSE "none"

\* con.close() with outcome res; a 'close' emitted inside the call runs the
\* close listener with the closure's values at that moment.
RawConClose(g, res, active, lastErr) ==
  CASE res = "closing" ->
         /\ rawCon' = [rawCon EXCEPT ![g] = "closing"]
         /\ UNCHANGED <<connectionClosed, tick>>
    [] res = "closed" ->
         /\ rawCon' = [rawCon EXCEPT ![g] = "closed"]
         /\ OnConClose(g, active, lastErr)
    [] OTHER -> UNCHANGED <<rawCon, connectionClosed, tick>>

\* closeConnection() closes the connection when it is open; which caller of
\* closeConnection did so on the connection of "cur" is kept in forcedClose.
Forced(g, by) ==
  IF g = "cur" /\ rawCon[g] = "open" THEN by ELSE forcedClose

\* Mutant of CloseConnectionThrown: the catch swallows whatever was raised.
CloseConnectionSwallowsAll(res) == "none"

\* closeConnection, lines 54-63: what it lets through of what con.close() raised.
CloseConnectionThrown(res) ==
  IF Raised(res) # "none" /\ res # "IllegalOperationError" THEN res ELSE "none"

\* ---- the connection wrapper (lines 102-130) ----

\* Mutant of WrapperClose: close(cb) also drops the connect that is scheduled.
WrapperCloseCancels(g) ==
  /\ rawCon[g] # "none"
  /\ activeConnection' = [activeConnection EXCEPT ![g] = FALSE]
  /\ \E res \in RawCloseOutcomes(rawCon[g]) :
       /\ rawCon' = IF res \in {"closing", "closed"}
                      THEN [rawCon EXCEPT ![g] = res] ELSE rawCon
       /\ connectionClosed' = IF res = "closed"
                                THEN [connectionClosed EXCEPT ![g] = TRUE]
                                ELSE connectionClosed
       /\ out' = Out("none", Raised(res))
  /\ tick' = 0
  /\ UNCHANGED <<askedVars, loopVars, lastError, lastReported, chanVars>>

\* Mutant of WrapperClose: the raw close first, so that the marker is not
\* cleared when the raw close raises.
WrapperCloseRaiseSkipsMarker(g) ==
  /\ rawCon[g] # "none"
  /\ \E res \in RawCloseOutcomes(rawCon[g]) :
       /\ RawConClose(g, res, activeConnection[g], lastError[g])
       /\ activeConnection' = IF Raised(res) = "none"
                                THEN [activeConnection EXCEPT ![g] = FALSE]
                                ELSE activeConnection
       /\ out' = Out("none", Raised(res))
  /\ UNCHANGED <<askedVars, loopVars, lastError, lastReported, chanVars>>

\* Mutant of WrapperClose: one marker for all the closures, as if
\* activeConnection were declared outside connect.
WrapperCloseSharedMarker(g) ==
  /\ rawCon[g] # "none"
  /\ \E res \in RawCloseOutcomes(rawCon[g]) :
       /\ activeConnection' = [h \in Gens |-> FALSE]
       /\ RawConClose(g, res, FALSE, lastError[g])
       /\ out' = Out("none", Raised(res))
  /\ UNCHANGED <<askedVars, loopVars, lastError, lastReported, chanVars>>

\* Mutant of WrapperClose: the raw close first, the marker cleared after it.
WrapperCloseMarkerLate(g) ==
  /\ rawCon[g] # "none"
  /\ \E res \in RawCloseOutcomes(rawCon[g]) :
       /\ RawConClose(g, res, activeConnection[g], lastError[g])
       /\ activeConnection' = [activeConnection EXCEPT ![g] = FALSE]
       /\ out' = Out("none", Raised(res))
  /\ UNCHANGED <<askedVars, loopVars, lastError, lastReported, chanVars>>

\* close(cb), lines 113-118: clear the marker, then the raw close.
WrapperClose(g) ==
  /\ rawCon[g] # "none"
  /\ \E res \in RawCloseOutcomes(rawCon[g]) :
       /\ activeConnection' = [activeConnection EXCEPT ![g] = FALSE]
       /\ RawConClose(g, res, FALSE, lastError[g])
       /\ out' = Out("none", Raised(res))
  /\ UNCHANGED <<askedVars, loopVars, lastError, lastReported, chanVars>>

\* Mutant of CloseAndReconnect: it clears the marker as close(cb) does.
CloseAndReconnectClearsMarker(g) ==
  /\ rawCon[g] # "none"
  /\ \E res \in RawCloseOutcomes(rawCon[g]) :
       /\ activeConnection' = [activeConnection EXCEPT ![g] = FALSE]
       /\ RawConClose(g, res, FALSE, lastError[g])
       /\ out' = Out("none", Raised(res))
  /\ reconnectAsked' = (reconnectAsked \/ (g = "cur" /\ rawCon[g] = "open"))
  /\ UNCHANGED <<observe, started, forcedClose, loopVars, lastError, lastReported,
                 chanVars>>

\* closeAndReconnect(cb), lines 120-124: the raw close alone.
CloseAndReconnect(g) ==
  /\ rawCon[g] # "none"
  /\ \E res \in RawCloseOutcomes(rawCon[g]) :
       /\ RawConClose(g, res, activeConnection[g], lastError[g])
       /\ out' = Out("none", Raised(res))
  /\ reconnectAsked' = (reconnectAsked \/ (g = "cur" /\ rawCon[g] = "open"))
  /\ UNCHANGED <<observe, started, forcedClose, loopVars, activeConnection,
                 lastError, lastReported, chanVars>>

\* createChannel(cb) / createConfirmChannel(cb), lines 103-112: the raw call
\* with channelCallback bound to the caller's callback.  A new channel takes
\* the lowest free number.
CreateChannel(g, c) ==
  /\ rawCon[g] = "open"
  /\ chan[c] = "none"
  /\ \A b \in Chans : b < c => chan[b] # "none"
  /\ chan' = [chan EXCEPT ![c] = "creating"]
  /\ chanOwner' = [chanOwner EXCEPT ![c] = g]
  /\ channelClosedByClient' = [channelClosedByClient EXCEPT ![c] = FALSE]
  /\ channelClosed' = [channelClosed EXCEPT ![c] = FALSE]
  /\ out' = Quiet
  /\ UNCHANGED <<askedVars, tick, loopVars, conVars>>

\* ---- channelCallback (lines 64-101) ----

\* Mutant of ChannelCallbackErr: the connection is closed as close(cb) closes
\* it, the marker cleared first.
ChannelCallbackErrClearsMarker(c, err) ==
  LET g == chanOwner[c] IN
  /\ chan[c] = "creating"
  /\ chan' = [chan EXCEPT ![c] = "none"]
  /\ chanOwner' = [chanOwner EXCEPT ![c] = "none"]
  /\ lastReported' = [lastReported EXCEPT ![g] = err]
  /\ lastError' = [lastError EXCEPT ![g] = err]
  /\ activeConnection' = [activeConnection EXCEPT ![g] = FALSE]
  /\ \E res \in RawCloseOutcomes(rawCon[g]) :
       /\ RawConClose(g, res, FALSE, err)
       /\ out' = OutAll("Failed to create a channel", CloseConnectionThrown(res),
                        Raised(res), err)
  /\ forcedClose' = Forced(g, err)
  /\ UNCHANGED <<fixedVars, loopVars, channelClosedByClient, channelClosed>>

\* Lines 65-73: the raw client failed to create the channel; no channel and
\* no channel wrapper come to exist.
ChannelCallbackErr(c, err) ==
  LET g == chanOwner[c] IN
  /\ chan[c] = "creating"
  /\ chan' = [chan EXCEPT ![c] = "none"]
  /\ chanOwner' = [chanOwner EXCEPT ![c] = "none"]
  /\ lastReported' = [lastReported EXCEPT ![g] = err]
  /\ lastError' = [lastError EXCEPT ![g] = err]
  /\ \E res \in RawCloseOutcomes(rawCon[g]) :
       /\ RawConClose(g, res, activeConnection[g], err)
       /\ out' = OutAll("Failed to create a channel", CloseConnectionThrown(res),
                        Raised(res), err)
  /\ forcedClose' = Forced(g, err)
  /\ UNCHANGED <<fixedVars, loopVars, activeConnection, channelClosedByClient,
                 channelClosed>>

\* Lines 74-100: the channel is there; listeners installed, wrapper handed over.
ChannelCallbackOk(c) ==
  /\ chan[c] = "creating"
  /\ rawCon[chanOwner[c]] \in {"open", "closing"}
  /\ chan' = [chan EXCEPT ![c] = "open"]
  /\ channelClosedByClient' = [channelClosedByClient EXCEPT ![c] = FALSE]
  /\ channelClosed' = [channelClosed EXCEPT ![c] = FALSE]
  /\ out' = OutAll("none", "none", "none", "channel")
  /\ UNCHANGED <<askedVars, tick, loopVars, conVars, chanOwner>>

\* Mutant of OnChanError: the listener reports the error but does not record it.
OnChanErrorNotRecorded(g, err) ==
  /\ UNCHANGED lastError
  /\ out' = Out("Channel failed", "none")

\* ch.on('error'), lines 74-77.
OnChanError(g, err) ==
  /\ lastError' = [lastError EXCEPT ![g] = err]
  /\ out' = Out("Channel failed", "none")

\* The raw channel emits 'error'.
ChanError(c, err) ==
  /\ chan[c] \in {"open", "closing"}
  /\ lastReported' = [lastReported EXCEPT ![chanOwner[c]] = err]
  /\ OnChanError(chanOwner[c], err)
  /\ UNCHANGED <<askedVars, tick, loopVars, activeConnection, connectionClosed,
                 rawCon, chanVars>>

\* Mutant of ClosesConnection: the listener closes the connection always.
ClosesConnectionAlways(closedByClient) == TRUE

\* Mutant of ClosesConnection: the test of line 84 inverted.
ClosesConnectionInverted(closedByClient) == closedByClient

\* Line 84: the close listener of a channel closes the connection unless the
\* channel was closed through its wrapper.
ClosesConnection(closedByClient) == ~closedByClient

\* Mutant of OnChanClose: the connection is closed as a deliberate close(cb)
\* closes it, so that its close listener finds no marker.
OnChanCloseAsDeliberate(c, closedByClient) ==
  LET g == chanOwner[c] IN
  /\ channelClosed' = [channelClosed EXCEPT ![c] = TRUE]
  /\ IF ClosesConnection(closedByClient)
       THEN /\ \E res \in RawCloseOutcomes(rawCon[g]) :
                 /\ RawConClose(g, res, FALSE, lastError[g])
                 /\ out' = OutAll("none", CloseConnectionThrown(res), Raised(res),
                                  "none")
            /\ forcedClose' = Forced(g, "channelClose")
       ELSE /\ UNCHANGED <<rawCon, connectionClosed, tick, forcedClose>>
            /\ out' = Quiet

\* ch.on('close'), lines 80-85, run with the closure's channelClosedByClient.
OnChanClose(c, closedByClient) ==
  LET g == chanOwner[c] IN
  /\ channelClosed' = [channelClosed EXCEPT ![c] = TRUE]
  /\ IF ClosesConnection(closedByClient)
       THEN /\ \E res \in RawCloseOutcomes(rawCon[g]) :
                 /\ RawConClose(g, res, activeConnection[g], lastError[g])
                 /\ out' = OutAll("none", CloseConnectionThrown(res), Raised(res),
                                  "none")
            /\ forcedClose' = Forced(g, "channelClose")
       ELSE /\ UNCHANGED <<rawCon, connectionClosed, tick, forcedClose>>
            /\ out' = Quiet

\* The raw channel emits 'close': once per raw channel.
ChanCloseEvent(c) ==
  /\ chan[c] \in {"open", "closing"}
  /\ chan' = [chan EXCEPT ![c] = "closed"]
  /\ OnChanClose(c, channelClosedByClient[c])
  /\ UNCHANGED <<fixedVars, loopVars, activeConnection, lastError, lastReported,
                 chanOwner, channelClosedByClient>>

\* ---- the channel wrapper (lines 86-100) ----

\* close(cb), lines 90-93: set channelClosedByClient, then the raw ch.close(cb),
\* which starts the channel's close handshake, completes at once (emitting
\* 'close' inside the call), or raises on a channel that is not open.
ChanWrapperClose(c) ==
  /\ chan[c] \in {"open", "closing", "closed"}
  /\ channelClosedByClient' = [channelClosedByClient EXCEPT ![c] = TRUE]
  /\ \/ /\ chan[c] = "open"
        /\ chan' = [chan EXCEPT ![c] = "closing"]
        /\ out' = Quiet
        /\ UNCHANGED <<channelClosed, rawCon, connectionClosed, tick, forcedClose>>
     \/ /\ chan[c] = "open"
        /\ chan' = [chan EXCEPT ![c] = "closed"]
        /\ OnChanClose(c, TRUE)
     \/ /\ chan[c] # "open"
        /\ out' = Out("none", "IllegalOperationError")
        /\ UNCHANGED <<chan, channelClosed, rawCon, connectionClosed, tick,
                       forcedClose>>
  /\ UNCHANGED <<fixedVars, loopVars, activeConnection, lastError, lastReported,
                 chanOwner>>

\* ---- the specification ----

Next ==
  \/ Connect
  \/ NextTick
  \/ \E g \in Gens, err \in Errors : ConnectFail(g, err)
  \/ \E g \in Gens : BackoffTimer(g)
  \/ \E g \in Gens : ConnectSuccess(g)
  \/ \E g \in Gens, err \in Errors : ConError(g, err)
  \/ \E g \in Gens : ConCloseEvent(g)
  \/ \E g \in Gens : WrapperClose(g)
  \/ \E g \in Gens : CloseAndReconnect(g)
  \/ \E g \in Gens, c \in Chans : CreateChannel(g, c)
  \/ \E c \in Chans, err \in Errors : ChannelCallbackErr(c, err)
  \/ \E c \in Chans : ChannelCallbackOk(c)
  \/ \E c \in Chans, err \in Errors : ChanError(c, err)
  \/ \E c \in Chans : ChanCloseEvent(c)
  \/ \E c \in Chans : ChanWrapperClose(c)

Spec == Init /\ [][Next]_vars

SpecObserved == InitObserved /\ [][Next]_vars

TypeOK ==
  /\ started \in BOOLEAN
  /\ reconnectAsked \in BOOLEAN
  /\ forcedClose \in {NotForced, "channelClose"} \cup Errors
  /\ observe \in BOOLEAN
  /\ tick \in 0..1
  /\ attempts \in 0..MaxAttempts
  /\ Len(cbLog) <= MaxAttempts
  /\ \A g \in Gens :
       /\ loop[g] \in {"pending", "connecting", "waiting", "completed"}
       /\ activeConnection[g] \in BOOLEAN
       /\ connectionClosed[g] \in BOOLEAN
       /\ lastError[g] \in Errors \cup {NoError}
       /\ lastReported[g] \in Errors \cup {NoError}
       /\ rawCon[g] \in {"none", "open", "closing", "closed"}
  /\ \A c \in Chans :
       /\ chan[c] \in {"none", "creating", "open", "closing", "closed"}
       /\ chanOwner[c] \in Gens \cup {"none"}
       /\ (chan[c] = "none") = (chanOwner[c] = "none")

\* ---- fairness: process.nextTick callbacks run, backoff timers fire, and
\* ---- amqp.connect calls back
FairSpec ==
  /\ Spec
  /\ WF_vars(NextTick)
  /\ \A g \in Gens : WF_vars(BackoffTimer(g))
  /\ \A g \in Gens :
       WF_vars(ConnectSuccess(g) \/ \E err \in Errors : ConnectFail(g, err))

\* ---- notions the properties share ----

\* A turn that calls connect: the closures change places.
NewClosure == Connect \/ NextTick

\* The turn handles the 'close' event of the raw connection of g.
ClosesNow(g) == ~NewClosure /\ rawCon[g] \in {"open", "closing"} /\ rawCon'[g] = "closed"

Recoverable(err) == err = NoError \/ ~IsErrorUnrecoverable(err)

\* The attempt loop of "cur" has ended with a connection.
Connected ==
  loop["cur"] = "completed" /\ cbLog # <<>> /\ cbLog[Len(cbLog)].err = NoError

\* The attempt loop of "cur" has ended on an unrecoverable error.
GaveUp ==
  /\ loop["cur"] = "completed"
  /\ cbLog # <<>>
  /\ cbLog[Len(cbLog)].err # NoError
  /\ IsErrorUnrecoverable(cbLog[Len(cbLog)].err)

\* ---- C1 ----

C1Step ==
  /\ ~NewClosure =>
       \A g \in Gens :
         /\ WrapperClose(g) => ~activeConnection'[g]
         /\ (rawCon[g] # "none" /\ ~activeConnection[g]) => ~activeConnection'[g]
         /\ (ClosesNow(g) /\ ~activeConnection'[g]) =>
              UNCHANGED <<tick, loop, attempts, cbLog>>
  /\ (rawCon["cur"] = "closed" /\ ~activeConnection["cur"] /\ tick = 0) =>
       UNCHANGED <<tick, loop, attempts, cbLog>>

\* C1: once the wrapper's close() has been called, the marker is and stays
\* cleared, so the close event of that raw connection (in a later turn or
\* emitted inside the raw close call) schedules no connect, starts no attempt
\* and invokes connectCallback no more; and after it nothing ever does.
C1_DeliberateCloseNeverReconnects == [][C1Step]_vars

\* close() was called on the connection of "cur", which had an open channel
\* and no recorded error, and its close event has been handled.
C1_Witness ==
  /\ rawCon["cur"] = "closed"
  /\ ~activeConnection["cur"]
  /\ lastError["cur"] = NoError
  /\ tick = 0
  /\ \E c \in Chans : chanOwner[c] = "cur" /\ chan[c] = "open"

\* ---- C2 ----

\* C2 as claimed: after closeAndReconnect() on a connected wrapper, the close
\* event of its raw connection always schedules exactly one connect.
C2_Original ==
  [][(reconnectAsked /\ ClosesNow("cur")) => tick' = tick + 1]_vars

C2Step ==
  /\ \A g \in Gens :
       CloseAndReconnect(g) => activeConnection'[g] = activeConnection[g]
  /\ (reconnectAsked' /\ ClosesNow("cur")) =>
       tick' = tick + (IF activeConnection["cur"] /\ Recoverable(lastError["cur"])
                         THEN 1 ELSE 0)
  /\ NextTick =>
       tick' = tick - 1 /\ loop'["cur"] = "connecting" /\ attempts' = 1

\* C2 (amended): closeAndReconnect() leaves the marker as it is, and the close
\* event that follows it schedules exactly one connect, which starts exactly
\* one attempt, if the marker is still set when the event is handled (close()
\* was not called) and the last recorded error, if any, is not classified
\* unrecoverable; otherwise it schedules none.
C2_CloseAndReconnectReconnectsIfEligible == [][C2Step]_vars

\* closeAndReconnect() closed the connection of "cur", whose close event has
\* been handled and has scheduled one connect.
C2_Witness ==
  reconnectAsked /\ rawCon["cur"] = "closed" /\ activeConnection["cur"] /\ tick = 1

\* ---- C3 ----

C3Step ==
  \A g \in Gens :
    ClosesNow(g) =>
      /\ lastError'[g] = lastReported'[g]
      /\ tick' = tick + (IF activeConnection'[g] /\ Recoverable(lastReported'[g])
                           THEN 1 ELSE 0)

\* C3: the turn that handles a raw connection's close event schedules a
\* connect if and only if the marker is set when the listener runs and the
\* error reported last on that connection or one of its channels (error
\* events and channel-creation failures alike), if any, is not classified
\* unrecoverable.
C3_ReconnectIffActiveAndRecoverable == [][C3Step]_vars

\* A close event has been handled with the marker set and a recoverable
\* error recorded, and a connect is scheduled.
C3_Witness ==
  /\ rawCon["cur"] = "closed"
  /\ activeConnection["cur"]
  /\ lastReported["cur"] = "ECONNRESET"
  /\ tick = 1

\* ---- C4 ----

C4State ==
  GaveUp =>
    /\ Len(cbLog) = attempts
    /\ \A i \in 1..Len(cbLog) : cbLog[i].err # NoError /\ cbLog[i].con = "none"
    /\ \A i \in 1..(Len(cbLog) - 1) : ~IsErrorUnrecoverable(cbLog[i].err)
    /\ tick = 0
    /\ rawCon["cur"] = "none"

C4Step ==
  /\ \A err \in Errors :
       (ConnectFail("cur", err) /\ IsErrorUnrecoverable(err)) =>
         GaveUp' /\ attempts' = attempts /\ Len(cbLog') = attempts
  /\ GaveUp => UNCHANGED <<tick, loop, attempts, cbLog, rawCon>>

\* C4: when the classifier returns true for the error of attempt k of a loop,
\* the loop ends there: connectCallback has been invoked exactly k times, each
\* time with an error only, and from then on no attempt is made, nothing is
\* scheduled and connectCallback is not invoked again.
C4_UnrecoverableStopsLoop == []C4State /\ [][C4Step]_vars

\* The loop gave up at its second attempt.
C4_Witness == GaveUp /\ attempts = 2

\* ---- C5 ----

C5State ==
  /\ \A i \in 1..Len(cbLog) : cbLog[i].err = NoError \/ cbLog[i].con = "none"
  /\ Connected =>
       /\ Len(cbLog) = attempts
       /\ cbLog[Len(cbLog)] = CallbackWith(NoError, "con")
       /\ \A i \in 1..(Len(cbLog) - 1) :
            /\ cbLog[i].err \in Errors
            /\ ~IsErrorUnrecoverable(cbLog[i].err)
            /\ cbLog[i].con = "none"

C5Step ==
  /\ \A err \in Errors :
       ConnectFail("cur", err) =>
         cbLog' = Append(cbLog, CallbackWith(err, "none")) /\ Len(cbLog') = attempts
  /\ ConnectSuccess("cur") =>
       cbLog' = Append(cbLog, CallbackWith(NoError, "con")) /\ Len(cbLog') = attempts
  /\ (Connected /\ ~NewClosure) => UNCHANGED <<attempts, cbLog>> /\ Connected'

\* C5: attempt i of a loop invokes connectCallback as its i-th invocation,
\* with (error) when it fails and with (null, wrapper) when it succeeds, never
\* with both; so after n recoverable failures and a success the invocations
\* are n errors in attempt order and then one wrapper, and the loop makes no
\* further attempt.
C5_CallbackPerAttemptThenWrapper == []C5State /\ [][C5Step]_vars

\* One failed attempt, then a successful one.
C5_Witness == Connected /\ attempts = 2 /\ rawCon["cur"] = "open"
\* ---- C6 ----

\* The turn handles the 'close' event of the raw channel c.
ChanClosesNow(c) == ~NewClosure /\ chan[c] \in {"open", "closing"} /\ chan'[c] = "closed"

C6Step ==
  \A c \in Chans :
    /\ ChanWrapperClose(c) => channelClosedByClient'[c]
    /\ (~NewClosure /\ chan[c] # "none" /\ channelClosedByClient[c]) =>
         channelClosedByClient'[c]
    /\ ((ChanClosesNow(c) \/ ChanWrapperClose(c)) /\ channelClosedByClient'[c]) =>
         /\ UNCHANGED <<rawCon, activeConnection, connectionClosed, tick, loopVars>>
         /\ \A d \in Chans \ {c} : chan'[d] = chan[d]

\* C6: once a channel wrapper's close() has been called, the call and the
\* channel's close event (in a later turn or emitted inside the raw channel
\* close) leave the raw connections, the marker, the pending connects and the
\* attempt loops as they are, and the other channels in their state.
C6_ChannelCloseLeavesConnection == [][C6Step]_vars

\* A channel closed through its wrapper has had its close event; the
\* connection and another channel on it are open.
C6_Witness ==
  \E c, d \in Chans :
    /\ c # d
    /\ chanOwner[c] = "cur" /\ chanOwner[d] = "cur"
    /\ chan[c] = "closed" /\ channelClosedByClient[c] /\ channelClosed[c]
    /\ chan[d] = "open"
    /\ rawCon["cur"] = "open" /\ activeConnection["cur"]

\* ---- C7 ----

C7Step ==
  /\ \A c \in Chans :
       (ChanClosesNow(c) /\ ~channelClosedByClient'[c]) =>
         LET g == chanOwner[c] IN
         /\ rawCon'[g] \in {"closing", "closed"}
         /\ \A h \in Gens \ {g} : rawCon'[h] = rawCon[h]
         /\ rawCon[g] # "open" => UNCHANGED <<rawCon, connectionClosed, tick>>
         /\ tick' <= tick + 1
  /\ \A g \in Gens :
       ~NewClosure =>
         /\ rawCon[g] \in {"closing", "closed"} => rawCon'[g] \in {"closing", "closed"}
         /\ rawCon[g] = "closed" => rawCon'[g] = "closed"
         /\ ClosesNow(g) => tick' <= tick + 1

\* C7: the close event of a channel whose wrapper's close() was not called
\* closes the parent raw connection when it is open, and changes nothing when
\* that connection is closing or closed already; a connection once closing
\* stays closing until its one close event, which schedules at most one
\* connect and after which it stays closed.
C7_UnsolicitedChannelCloseClosesConnectionOnce == [][C7Step]_vars

\* Two channels of one connection have closed without close() on their
\* wrappers; the connection has had its close event and one connect is scheduled.
C7_Witness ==
  \E c, d \in Chans :
    /\ c # d
    /\ chanOwner[c] = "cur" /\ chanOwner[d] = "cur"
    /\ chan[c] = "closed" /\ ~channelClosedByClient[c]
    /\ chan[d] = "closed" /\ ~channelClosedByClient[d]
    /\ rawCon["cur"] = "closed"
    /\ tick = 1

\* ---- C8 ----

C8State ==
  \A g \in Gens : rawCon[g] # "none" => (connectionClosed[g] <=> rawCon[g] = "closed")

C8Step ==
  /\ \A g \in Gens :
       /\ ConnectSuccess(g) => ~connectionClosed'[g]
       /\ ~NewClosure =>
            /\ connectionClosed[g] => connectionClosed'[g]
            /\ (~connectionClosed[g] /\ connectionClosed'[g]) <=> ClosesNow(g)
  /\ NewClosure => connectionClosed'["old"] = connectionClosed["cur"]

\* C8: the closed flag of a connection wrapper is false when the wrapper is
\* delivered, turns true in the turn that handles the close event of its raw
\* connection and in no other turn (not when close() or closeAndReconnect()
\* only start the close), and once true it stays true, also while and after a
\* new connection is made.
C8_ClosedFlagLatchedAtCloseEvent == []C8State /\ [][C8Step]_vars

\* The superseded wrapper is closed, the new one is delivered and not closed.
C8_Witness ==
  /\ connectionClosed["old"]
  /\ rawCon["cur"] = "open"
  /\ ~connectionClosed["cur"]
  /\ Connected

\* ---- C9 ----

Running(g) == loop[g] \in {"connecting", "waiting"}
Live(g) == rawCon[g] \in {"open", "closing"} /\ activeConnection[g]

\* C9: at most one raw connection is open with its marker set, at most one
\* attempt loop is running, and not both at once.
C9_AtMostOneActive ==
  Cardinality({g \in Gens : Running(g)}) + Cardinality({g \in Gens : Live(g)}) <= 1

\* After a reconnection: the superseded connection is closed, with its marker
\* still set, and the new one is open with its marker set.
C9_Witness ==
  /\ rawCon["old"] = "closed" /\ activeConnection["old"]
  /\ Live("cur")

\* ---- C10 ----

\* A new wrapper has been delivered by the loop of "cur".
Delivered == tick = 0 /\ Connected /\ rawCon["cur"] = "open"

C10Step ==
  \A g \in Gens :
    (ClosesNow(g) /\ activeConnection'[g] /\ Recoverable(lastError'[g])) => tick' > 0

\* C10: a close event handled with the marker set and no unrecoverable last
\* error leaves a connect scheduled; a scheduled connect is eventually run,
\* which starts the first attempt of a new loop; and that loop eventually
\* delivers a new wrapper unless an attempt fails with an error classified
\* unrecoverable.
C10_UnexpectedCloseEventuallyReconnects ==
  /\ [][C10Step]_vars
  /\ (tick > 0) ~> (tick = 0 /\ loop["cur"] = "connecting" /\ attempts = 1)
  /\ (tick > 0) ~> (Delivered \/ GaveUp)

\* A connection was closed unexpectedly and its successor has been delivered
\* after a failed attempt.
C10_Witness ==
  /\ rawCon["old"] = "closed" /\ activeConnection["old"]
  /\ Delivered
  /\ attempts = 2
\* ---- C11 ----

C11State ==
  \A g \in Gens : (loop[g] = "completed" /\ g = "cur") => (Connected \/ GaveUp)

C11Step ==
  \A g \in Gens :
    /\ (loop[g] = "connecting" /\ Len(cbLog') = Len(cbLog) + 1
          /\ cbLog'[Len(cbLog')].err # NoError
          /\ ~IsErrorUnrecoverable(cbLog'[Len(cbLog')].err)) =>
         loop'[g] = "waiting"
    /\ (loop[g] = "waiting" /\ loop'[g] # "waiting") =>
         loop'[g] = "connecting" /\ attempts' = attempts + 1

\* C11: a failed attempt whose error the classifier does not call
\* unrecoverable, whatever its number, leaves the loop waiting for its next
\* attempt; a waiting loop only goes on to that attempt, and eventually does;
\* a loop ends only with a connection or with an unrecoverable error.
C11_NoRetryCeiling ==
  /\ []C11State
  /\ [][C11Step]_vars
  /\ \A n \in 1..(MaxAttempts - 1) :
       (loop["cur"] = "waiting" /\ attempts = n) ~>
         (loop["cur"] = "connecting" /\ attempts = n + 1)

\* Every attempt up to the model's last has failed with a recoverable error
\* and the next attempt is under way.
C11_Witness ==
  /\ loop["cur"] = "connecting"
  /\ attempts = MaxAttempts
  /\ Len(cbLog) = MaxAttempts - 1
  /\ \A i \in 1..Len(cbLog) : cbLog[i].err # NoError /\ ~IsErrorUnrecoverable(cbLog[i].err)
\* ---- C12 ----

\* What an error listener leaves alone.
C12Frame ==
  UNCHANGED <<tick, loopVars, activeConnection, connectionClosed, rawCon, chan,
              chanOwner, channelClosed, channelClosedByClient>>

C12Step ==
  /\ \A g \in Gens, err \in Errors :
       ConError(g, err) =>
         /\ lastError' = [lastError EXCEPT ![g] = err]
         /\ out'.onError = "Connection failed" /\ out'.thrown = "none"
         /\ C12Frame
  /\ \A c \in Chans, err \in Errors :
       ChanError(c, err) =>
         /\ lastError' = [lastError EXCEPT ![chanOwner[c]] = err]
         /\ out'.onError = "Channel failed" /\ out'.thrown = "none"
         /\ C12Frame
  /\ out'.onError \in {"Connection failed", "Channel failed"} =>
       (C12Frame /\ lastError' = lastReported')

\* C12: the turn that handles an 'error' event of a raw connection or of a
\* raw channel records the error as lastError of that connection, hands
\* o.onError one message, raises nothing, and leaves the attempt loops, the
\* pending connects, the markers, the closed flags of connections and
\* channels and the state of every raw connection and channel as they are,
\* whatever the classifier says of the error.
C12_ErrorEventsObserveOnly == [][C12Step]_vars

\* A channel has just reported an unrecoverable error on an open connection
\* whose marker is set; nothing is closed and no connect is scheduled.
C12_Witness ==
  /\ out.onError = "Channel failed"
  /\ lastError["cur"] # NoError /\ IsErrorUnrecoverable(lastError["cur"])
  /\ rawCon["cur"] = "open" /\ activeConnection["cur"] /\ ~connectionClosed["cur"]
  /\ tick = 0
  /\ \E c \in Chans : chanOwner[c] = "cur" /\ chan[c] = "open" /\ ~channelClosed[c]
\* ---- C13 ----

\* C13 as claimed: the close event of a connection that a channel-creation
\* failure has forced closed schedules a connect if and only if the marker is
\* still set and the error of that failure is not classified unrecoverable.
C13_Original ==
  [][(forcedClose' \in Errors /\ ClosesNow("cur")) =>
       tick' = tick + (IF activeConnection'["cur"] /\ Recoverable(forcedClose')
                         THEN 1 ELSE 0)]_vars

C13Step ==
  /\ \A c \in Chans, err \in Errors :
       ChannelCallbackErr(c, err) =>
         LET g == chanOwner[c] IN
         /\ lastError'[g] = err
         /\ out'.onError = "Failed to create a channel"
         /\ out'.chanCb = err
         /\ activeConnection' = activeConnection
         /\ rawCon[g] = "open" => rawCon'[g] \in {"closing", "closed"}
         /\ \A h \in Gens \ {g} : rawCon'[h] = rawCon[h] /\ lastError'[h] = lastError[h]
  /\ (forcedClose' \in Errors /\ ClosesNow("cur")) =>
       tick' = tick + (IF activeConnection'["cur"] /\ Recoverable(lastError'["cur"])
                         THEN 1 ELSE 0)

\* C13: a channel-creation failure records its error as lastError, hands
\* o.onError one message and the caller's channel callback the error, and
\* closes the raw connection when it is open, the marker left as it is; the
\* close event of a connection so closed schedules one connect if the marker
\* is still set and the error recorded last by then (that of the failure
\* unless an error event came after it) is not classified unrecoverable, and
\* none otherwise.
C13_ChannelCreationFailureClosesConnection == [][C13Step]_vars

\* A channel-creation failure with a recoverable error closed the connection;
\* an unrecoverable error event came before the close event, which scheduled
\* no connect although the marker was set.
C13_Witness ==
  /\ forcedClose \in Errors /\ Recoverable(forcedClose)
  /\ rawCon["cur"] = "closed" /\ activeConnection["cur"]
  /\ lastError["cur"] # forcedClose
  /\ tick = 0
\* ---- C14 ----

\* The turn runs closeConnection on the connection of g: the close listener of
\* a channel of g not closed through its wrapper, or a channel-creation failure.
ForcedCloseTurn(g) ==
  \E c \in Chans :
    /\ chanOwner[c] = g
    /\ \/ ChanCloseEvent(c) /\ ~channelClosedByClient[c]
       \/ \E err \in Errors : ChannelCallbackErr(c, err)

C14Step ==
  \A g \in Gens :
    ForcedCloseTurn(g) =>
      /\ out'.thrown = (IF out'.raised = "IllegalOperationError"
                          THEN "none" ELSE out'.raised)
      /\ rawCon[g] = "open" => out'.raised = "none"
      /\ rawCon[g] # "open" =>
           UNCHANGED <<rawCon, connectionClosed, activeConnection, tick, loopVars,
                       forcedClose>>

\* C14: when the raw close that closeConnection calls raises, which it does
\* only on a connection already closing or closed, the turn raises nothing if
\* the error is an IllegalOperationError and raises that error to its caller
\* otherwise; in both cases the raw connections, the markers, the closed
\* flags, the pending connects and the attempt loops stay as they are.
C14_ForcedCloseSwallowsIllegalOperationOnly == [][C14Step]_vars

\* A channel closed on a closing connection: the raw close raised
\* IllegalOperationError, the turn raised nothing, no connect is scheduled.
C14_Witness ==
  /\ out.raised = "IllegalOperationError" /\ out.thrown = "none"
  /\ out.onError = "none"
  /\ rawCon["cur"] = "closing" /\ activeConnection["cur"]
  /\ tick = 0
\* ---- C15 ----

\* The turn runs the close listener of some raw connection.
SomeConCloses ==
  \E g \in Gens : rawCon[g] \in {"open", "closing"} /\ rawCon'[g] = "closed"

C15Step ==
  /\ SomeConCloses => (UNCHANGED loopVars /\ tick' \in {tick, tick + 1})
  /\ tick' > tick => (SomeConCloses /\ ~NewClosure)
  /\ NewClosure => (tick' = tick - 1 \/ (~started /\ tick' = tick))
  /\ (attempts' = 1 /\ loop'["cur"] = "connecting" /\ loop["cur"] # "connecting") =>
       NewClosure

\* C15: a turn that runs the close listener of a raw connection, whether
\* it is the turn of the 'close' event or a turn whose raw close emits it,
\* starts no attempt and invokes no connectCallback; it schedules at most one
\* connect, and only such a turn schedules one; the first attempt of a loop is
\* started only by the caller's connect or by a later turn that takes one
\* scheduled connect.
C15_ReconnectDeferredToLaterTurn == [][C15Step]_vars

\* The close listener has scheduled a connect and no attempt has started;
\* a channel of the closed connection has still to close.
C15_Witness ==
  /\ tick = 1
  /\ rawCon["cur"] = "closed" /\ connectionClosed["cur"]
  /\ loop["cur"] = "completed"
  /\ \E c \in Chans : chanOwner[c] = "cur" /\ chan[c] = "open"
\* ---- C16 ----

C16Step ==
  /\ \A g \in Gens :
       ((WrapperClose(g) \/ CloseAndReconnect(g)) /\ rawCon[g] = "closed") =>
         UNCHANGED <<tick, loopVars>>
  /\ tick' < tick => NewClosure
  /\ \A g \in Gens :
       (~NewClosure /\ Running(g) /\ ~Running(g)') =>
         /\ loop'[g] = "completed"
         /\ Len(cbLog') = Len(cbLog) + 1
         /\ LET last == cbLog'[Len(cbLog')] IN
              last.err = NoError \/ IsErrorUnrecoverable(last.err)

\* C16: close() and closeAndReconnect() on a wrapper whose connection has
\* closed leave the scheduled connect and the attempt loop as they are; a
\* scheduled connect goes only by being run, and a running loop stops only in
\* the turn of an attempt that succeeds or fails with an error classified
\* unrecoverable.
C16_NoCancellationOfReconnection == [][C16Step]_vars

\* The loop that followed an unexpected close is waiting for its next attempt
\* after close() was called on the closed wrapper.
C16_Witness ==
  /\ rawCon["old"] = "closed" /\ ~activeConnection["old"]
  /\ loop["cur"] = "waiting"
  /\ tick = 0
\* ---- C17 ----

\* C17 as claimed: the close event of a connection that an unsolicited channel
\* close has forced closed schedules a connect whenever the error recorded
\* last is not classified unrecoverable.
C17_Original ==
  [][(forcedClose' = "channelClose" /\ ClosesNow("cur")
        /\ Recoverable(lastError'["cur"])) => tick' = tick + 1]_vars

C17Step ==
  /\ \A c \in Chans :
       (ChanClosesNow(c) /\ ~channelClosedByClient'[c]) =>
         activeConnection' = activeConnection
  /\ (forcedClose' = "channelClose" /\ ClosesNow("cur")) =>
       tick' = tick + (IF activeConnection'["cur"] /\ Recoverable(lastError'["cur"])
                         THEN 1 ELSE 0)
  /\ \A c \in Chans :
       (ChanClosesNow(c) /\ ~channelClosedByClient'[c] /\ chanOwner[c] = "cur"
          /\ rawCon["cur"] = "open" /\ rawCon'["cur"] = "closed") =>
         tick' = tick + (IF Recoverable(lastError["cur"]) THEN 1 ELSE 0)

\* C17: the close listener of a channel not closed through its wrapper leaves
\* the marker as it is when it closes the connection; the close event of a
\* connection so closed schedules one connect if the marker is still set
\* (close() was not called on the wrapper meanwhile) and the error recorded
\* last, if any, is not classified unrecoverable, and none otherwise; when
\* the event is emitted inside that forced close the marker is set.
C17_UnsolicitedChannelCloseKeepsMarker == [][C17Step]_vars

\* An unsolicited channel close closed the connection, whose close event has
\* found the marker set and has scheduled a connect.
C17_Witness ==
  /\ forcedClose = "channelClose"
  /\ rawCon["cur"] = "closed" /\ activeConnection["cur"]
  /\ tick = 1
\* ---- C18 ----

C18Step ==
  /\ (WrapperClose("cur") /\ reconnectAsked /\ rawCon["cur"] = "closing") =>
       /\ ~activeConnection'["cur"]
       /\ out'.thrown \in {"IllegalOperationError", "Error"}
       /\ UNCHANGED <<rawCon, tick, loopVars>>
  /\ (CloseAndReconnect("cur") /\ ~activeConnection["cur"]) =>
       /\ ~activeConnection'["cur"]
       /\ UNCHANGED <<tick, loopVars>>
  /\ (~NewClosure /\ rawCon["cur"] # "none" /\ ~activeConnection["cur"]) =>
       ~activeConnection'["cur"]
  /\ (ClosesNow("cur") /\ ~activeConnection'["cur"]) => UNCHANGED <<tick, loopVars>>

\* C18: close() called while the close that closeAndReconnect() started is
\* under way clears the marker although its raw close raises; closeAndReconnect()
\* called after close() leaves the marker cleared; the marker stays cleared, and
\* the close event of the connection then schedules no connect and starts no
\* attempt, in either order of the two calls.
C18_DeliberateCloseWinsOverCloseAndReconnect == [][C18Step]_vars

\* closeAndReconnect() started the close, close() followed before the close
\* event, and the close event has scheduled no connect although no error
\* was recorded.
C18_Witness ==
  /\ reconnectAsked
  /\ ~activeConnection["cur"]
  /\ rawCon["cur"] = "closed" /\ connectionClosed["cur"]
  /\ lastError["cur"] = NoError
  /\ tick = 0
\* ---- C19 ----

\* A turn of the superseded closure: an operation on its wrapper, or an event,
\* a creation result or a wrapper operation of one of its channels.
OldTurn ==
  \/ WrapperClose("old")
  \/ CloseAndReconnect("old")
  \/ \E c \in Chans :
       /\ chanOwner[c] = "old"
       /\ \/ ChanCloseEvent(c)
          \/ ChanWrapperClose(c)
          \/ ChannelCallbackOk(c)
          \/ \E err \in Errors : ChanError(c, err) \/ ChannelCallbackErr(c, err)

C19Step ==
  OldTurn =>
    /\ rawCon'["cur"] = rawCon["cur"]
    /\ activeConnection'["cur"] = activeConnection["cur"]
    /\ lastError'["cur"] = lastError["cur"]
    /\ connectionClosed'["cur"] = connectionClosed["cur"]
    /\ \A c \in Chans : chanOwner[c] = "cur" => chan'[c] = chan[c]
    /\ UNCHANGED <<tick, loopVars>>

\* C19: close() and closeAndReconnect() on the superseded wrapper, a late
\* channel-creation result for it, and error and close events and close() on
\* its channels leave the raw connection, the marker, lastError, the closed
\* flag and the channels of the newest closure, its attempt loop and the
\* pending connects as they are.
C19_ClosuresIsolated == [][C19Step]_vars

\* A channel of the superseded connection has just reported an unrecoverable
\* error; the new connection is open, its marker set and no error recorded.
C19_Witness ==
  /\ out.onError = "Channel failed"
  /\ lastError["old"] # NoError /\ IsErrorUnrecoverable(lastError["old"])
  /\ rawCon["cur"] = "open" /\ activeConnection["cur"]
  /\ lastError["cur"] = NoError
  /\ tick = 0
\* ---- C20 ----

C20State ==
  \A g \in Gens :
    loop[g] = "waiting" =>
      /\ g = "cur"
      /\ Len(cbLog) = attempts
      /\ cbLog[attempts].err # NoError /\ ~IsErrorUnrecoverable(cbLog[attempts].err)

C20Step ==
  /\ NextTick =>
       /\ loop'["cur"] = "connecting"
       /\ attempts' = 1
       /\ cbLog' = <<>>
  /\ \A g \in Gens :
       (~NewClosure /\ loop'[g] = "waiting" /\ loop[g] # "waiting") =>
         /\ loop[g] = "connecting"
         /\ Len(cbLog') = Len(cbLog) + 1
  /\ (~NewClosure /\ attempts' # attempts) =>
       (loop["cur"] = "waiting" /\ attempts' = attempts + 1)

\* C20: the turn that runs a scheduled connect starts the first attempt of a
\* new loop at once, with no attempt and no connectCallback counted from the
\* loops before it, however many attempts they made; a loop waits only after
\* an attempt of its own has failed with a recoverable error, and a later
\* attempt of a loop starts only from such a wait.
C20_BackoffNotCarriedAcrossReconnections ==
  []C20State /\ [][C20Step]_vars

\* A reconnection has delivered a new connection at the first attempt of its
\* own loop, and that connection has closed in its turn and scheduled the next
\* reconnection.
C20_Witness ==
  /\ rawCon["old"] = "closed" /\ activeConnection["old"]
  /\ rawCon["cur"] = "closed" /\ activeConnection["cur"]
  /\ attempts = 1 /\ Len(cbLog) = 1
  /\ tick = 1

====
